---- MODULE Spec2Model ----
(***************************************************************************)
(* A model of the go-strava client (package strava): the strava struct,    *)
(* its Request builder, the OAuth grant exchange and the typed resource    *)
(* calls.  Every public method is one action; the HTTP transport           *)
(* (http.Client.Do) is an input of the action, drawn from the outcomes the *)
(* transport can produce.                                                  *)
(***************************************************************************)
EXTENDS Integers, Sequences, FiniteSets, TLC

(***************************************************************************)
(* s is the strava struct (cfg, accessToken, userID).  The other variables *)
(* record the last call: the method and its arguments, the RequestParams   *)
(* it built, the requests it handed to the transport, the response as the  *)
(* call left it, and what the call returned.  lastSet is the argument of   *)
(* the most recent SetAccessToken call.                                    *)
(***************************************************************************)
VARIABLES s, lastSet, call, params, sent, resp, result
vars == <<s, lastSet, call, params, sent, resp, result>>

(***************************************************************************)
(* Bounds of the explored inputs.                                          *)
(***************************************************************************)
MaxID == 1
MaxPage == 3
MaxPerPage == 1

(***************************************************************************)
(* Program constants.                                                      *)
(***************************************************************************)
GrantAuthorizationCode == "authorization_code"
GrantRefreshToken == "refresh_token"
AuthorizationError == "authorization error"
MethodGet == "GET"
MethodPost == "POST"
StatusOK == 200
StatusUnauthorized == 401
TokenEndpoint == "https://www.strava.com/api/v3/oauth/token"

(***************************************************************************)
(* Errors are strings; NilErr is the nil error.                            *)
(***************************************************************************)
NilErr == "<nil>"
TransportErr == "dial tcp: connection refused"
RedirectErr == "stopped after 10 redirects"
ParseErr == "parse: invalid character in host name"
SyntaxErr == "invalid character looking for beginning of value"
TruncatedErr == "unexpected end of JSON input"
TypeErr == "json: cannot unmarshal into Go value"

(***************************************************************************)
(* Input sets.                                                             *)
(***************************************************************************)
BadHost == "http://bad host"
Configs ==
    { [Host |-> "https://www.strava.com/api/v3", ClientID |-> "1234",
       ClientSecret |-> "s3cret", RedirectURI |-> "http://localhost/cb",
       Timeout |-> 10, Scope |-> "activity:read"],
      [Host |-> BadHost, ClientID |-> "", ClientSecret |-> "",
       RedirectURI |-> "", Timeout |-> 0, Scope |-> ""] }
Tokens == {"", "tokA"}
Codes == {"c0de", "r/t"}
Grants == {GrantAuthorizationCode, GrantRefreshToken, "bogus_grant"}
States == {"xyz"}
IDs == 0..MaxID
Pages == 0..MaxPage
PerPages == 0..MaxPerPage

\* types.Date: the zero date, or a date with its unix timestamp.
ZeroDate == [zero |-> TRUE]
Dates == {ZeroDate, [zero |-> FALSE, unix |-> 0], [zero |-> FALSE, unix |-> 1600000000]}
IsZero(d) == d = ZeroDate
Unix(d) == d.unix

\* types.Map values carry their Go type; a nil Map reads as the empty Map.
EmptyMap == [k \in {} |-> ""]
Str(v) == [t |-> "string", s |-> v]
U64(n) == [t |-> "uint64", n |-> n]
I64(n) == [t |-> "int64", n |-> n]
MapSet(m, k, v) == [x \in DOMAIN m \cup {k} |-> IF x = k THEN v ELSE m[x]]

\* convert.String: a string is kept, an integer is printed in decimal.
convertString(val) == IF val.t = "string" THEN val.s ELSE ToString(val.n)

(***************************************************************************)
(* JSON documents a response body can hold, and json.Unmarshal into the    *)
(* three target types.  A struct target takes the fields it knows from an  *)
(* object and leaves the others at their zero value.                       *)
(***************************************************************************)
ObjActivity == [kind |-> "object", fields |-> ("id" :> 1)]
ObjToken == [kind |-> "object",
             fields |-> ("access_token" :> "fresh" @@ "refresh_token" :> "again")]
ArrActivities == [kind |-> "array", items |-> <<("id" :> 1), ("id" :> 2)>>]
Malformed == [kind |-> "malformed"]
Truncated == [kind |-> "truncated"]
Docs == {ObjActivity, ObjToken, ArrActivities, Malformed}

ZeroActivity == [ID |-> 0]
ZeroAccessToken == [AccessToken |-> "", RefreshToken |-> ""]
NilActivities == <<>>

ActivityOf(f) == [ID |-> IF "id" \in DOMAIN f THEN f["id"] ELSE 0]
AccessTokenOf(f) ==
    [AccessToken |-> IF "access_token" \in DOMAIN f THEN f["access_token"] ELSE "",
     RefreshToken |-> IF "refresh_token" \in DOMAIN f THEN f["refresh_token"] ELSE ""]
DecodeErr(b) ==
    CASE b.kind = "malformed" -> SyntaxErr
      [] b.kind = "truncated" -> TruncatedErr
      [] OTHER -> TypeErr

UnmarshalActivity(b) ==
    IF b.kind = "object" THEN [out |-> ActivityOf(b.fields), err |-> NilErr]
    ELSE [out |-> ZeroActivity, err |-> DecodeErr(b)]
UnmarshalActivities(b) ==
    IF b.kind = "array"
    THEN [out |-> [i \in 1..Len(b.items) |-> ActivityOf(b.items[i])], err |-> NilErr]
    ELSE [out |-> NilActivities, err |-> DecodeErr(b)]
UnmarshalAccessToken(b) ==
    IF b.kind = "object" THEN [out |-> AccessTokenOf(b.fields), err |-> NilErr]
    ELSE [out |-> ZeroAccessToken, err |-> DecodeErr(b)]

(***************************************************************************)
(* Responses.  A body is a stream: a broken stream fails before its end;   *)
(* drained says it was read until it gave nothing more (its end, or the    *)
(* failure), closed that Close was called on it.                           *)
(***************************************************************************)
NilResponse == [nil |-> TRUE]
Body(d, brk) == [data |-> d, broken |-> brk, drained |-> FALSE, closed |-> FALSE]
Response(st, b) == [StatusCode |-> st, Body |-> b]
Statuses == {StatusOK, StatusUnauthorized, 404}
Bodies == {Body(d, FALSE) : d \in Docs} \cup {Body(ObjActivity, TRUE)}

\* ioutil.ReadAll: the bytes read (the read error is dropped by the
\* callers), and the stream after the read.
ReadAll(b) ==
    [bytes |-> IF b.broken THEN Truncated ELSE b.data,
     body |-> [b EXCEPT !.drained = TRUE]]

\* http.Client.Do: a response, a network error without a response, or (the
\* redirect policy failing) the last redirect response, its body already
\* closed, together with an error.
Transports ==
    { [r |-> Response(st, b), err |-> NilErr] : st \in Statuses, b \in Bodies }
    \cup { [r |-> NilResponse, err |-> TransportErr] }
    \cup { [r |-> Response(302, [Body(Malformed, FALSE) EXCEPT !.closed = TRUE]),
            err |-> RedirectErr] }

(***************************************************************************)
(* Request.                                                                *)
(***************************************************************************)
Endpoints == {"/activities"} \cup {"/activities/" \o ToString(id) : id \in IDs}

\* http.NewRequest fails when the URL does not parse.
ParseOK(uri) == \A e \in Endpoints : uri # BadHost \o e

\* url.QueryEscape over the values of the model: "/" is escaped.
QueryEscape(v) == IF v = "r/t" THEN "r%2Ft" ELSE v

\* url.Values.Encode: key=value pairs joined by "&", sorted by key.
QueryKeys ==
    <<"after", "before", "client_id", "client_secret", "code", "grant_type",
      "page", "per_page", "refresh_token">>
RECURSIVE EncodeFrom(_, _, _)
EncodeFrom(q, i, buf) ==
    IF i > Len(QueryKeys) THEN buf
    ELSE IF QueryKeys[i] \in DOMAIN q
         THEN EncodeFrom(q, i + 1,
                  (IF buf = "" THEN "" ELSE buf \o "&")
                      \o QueryKeys[i] \o "=" \o QueryEscape(q[QueryKeys[i]]))
         ELSE EncodeFrom(q, i + 1, buf)
Encode(q) == EncodeFrom(q, 1, "")

AuthorizationHeaderAlways(c, p) ==
    "Authorization" :> ("Bearer " \o c.accessToken)
AuthorizationHeader(c, p) ==
    IF p.WithBearer THEN "Authorization" :> ("Bearer " \o c.accessToken)
    ELSE EmptyMap

ContentTypeJSONOnPost(method, p) ==
    IF method = MethodPost THEN "application/json"
    ELSE "application/x-www-form-urlencoded"
ContentType(method, p) ==
    IF method = MethodPost /\ ~p.WithFormURLEncoded THEN "application/json"
    ELSE "application/x-www-form-urlencoded"

\* The request as handed to the transport; the body reader (values) is nil.
BuildRequest(c, method, uri, p) ==
    LET q == [k \in DOMAIN p.Queries |-> convertString(p.Queries[k])]
    IN  [Method |-> method, URL |-> uri, Query |-> q, RawQuery |-> Encode(q),
         Header |-> AuthorizationHeader(c, p)
                    @@ "Content-Type" :> ContentType(method, p)
                    @@ "Accept" :> "application/json;charset=UTF-8",
         Body |-> "nil"]

\* What follows s.Do: r.StatusCode is read whatever err is, which panics on
\* a nil response.
AfterDoKeepsErr(tr) ==
    IF tr.r = NilResponse THEN [panic |-> TRUE, r |-> tr.r, err |-> tr.err]
    ELSE [panic |-> FALSE, r |-> tr.r, err |-> tr.err]
AfterDo(tr) ==
    IF tr.r = NilResponse THEN [panic |-> TRUE, r |-> tr.r, err |-> tr.err]
    ELSE [panic |-> FALSE, r |-> tr.r,
          err |-> IF tr.r.StatusCode = StatusUnauthorized
                  THEN AuthorizationError ELSE tr.err]

Request(c, method, uri, p, tr) ==
    IF ~ParseOK(uri)
    THEN [sent |-> <<>>, panic |-> FALSE, r |-> NilResponse, err |-> ParseErr]
    ELSE [sent |-> <<BuildRequest(c, method, uri, p)>>] @@ AfterDo(tr)

POST(c, endpoint, p, tr) == Request(c, MethodPost, c.cfg.Host \o endpoint, p, tr)
GET(c, endpoint, p, tr) == Request(c, MethodGet, c.cfg.Host \o endpoint, p, tr)

closeHTTPResponseNoop(r) == r
closeHTTPResponse(r) ==
    IF r # NilResponse THEN [r EXCEPT !.Body.closed = TRUE] ELSE r

Return(out, err) == [kind |-> "return", out |-> out, err |-> err]
Panic == [kind |-> "panic", msg |-> "invalid memory address or nil pointer dereference"]
Done == [kind |-> "return"]
NoParams == [none |-> TRUE]

(***************************************************************************)
(* The methods of the client.  Each operator gives, for the struct c, the  *)
(* arguments and the transport's outcome tr, what the call did: the        *)
(* RequestParams built, the requests sent, the response as left when the   *)
(* call ends (deferred close applied), and the result.  A panic raised in  *)
(* Request leaves the caller before its defer is registered.               *)
(***************************************************************************)
SetAccessToken(c, tok) == [c EXCEPT !.accessToken = tok]

SetUserIDClobbersToken(c, id) == [c EXCEPT !.userID = id, !.accessToken = ""]
SetUserID(c, id) == [c EXCEPT !.userID = id]

AuthorizationURL(c, state) ==
    "https://www.strava.com/oauth/authorize?client_id=" \o c.cfg.ClientID
        \o "&response_type=code&redirect_uri=http://runjoy.kovacou.com"
        \o "&approval_prompt=force&scope=" \o c.cfg.Scope \o "&state=" \o state

\* The switch on the grant: the default case returns before any request.
GrantSupportedAny(grant) == TRUE
GrantSupported(grant) == grant \in {GrantAuthorizationCode, GrantRefreshToken}

\* The message quotes the grant (between backquotes in the source).
UnsupportedGrantErr(grant) == "grant_type '" \o grant \o "' not supported"

GrantQueriesAlwaysCode(c, tok, grant) ==
    MapSet(MapSet(("client_id" :> Str(c.cfg.ClientID)
                       @@ "client_secret" :> Str(c.cfg.ClientSecret)),
                  "code", Str(tok)),
           "grant_type", Str(grant))
GrantQueries(c, tok, grant) ==
    LET base == "client_id" :> Str(c.cfg.ClientID)
                    @@ "client_secret" :> Str(c.cfg.ClientSecret)
        withTok == CASE grant = GrantAuthorizationCode -> MapSet(base, "code", Str(tok))
                     [] grant = GrantRefreshToken -> MapSet(base, "refresh_token", Str(tok))
                     [] OTHER -> base
    IN  MapSet(withTok, "grant_type", Str(grant))

AuthorizationAccessToken(c, tok, grant, tr) ==
    IF ~GrantSupported(grant)
    THEN [params |-> [Queries |-> "client_id" :> Str(c.cfg.ClientID)
                                      @@ "client_secret" :> Str(c.cfg.ClientSecret),
                      Values |-> EmptyMap, WithBearer |-> FALSE,
                      WithFormURLEncoded |-> FALSE],
          sent |-> <<>>, resp |-> NilResponse,
          result |-> Return(ZeroAccessToken, UnsupportedGrantErr(grant))]
    ELSE LET p == [Queries |-> GrantQueries(c, tok, grant), Values |-> EmptyMap,
                   WithBearer |-> FALSE, WithFormURLEncoded |-> FALSE]
             rq == Request(c, MethodPost, TokenEndpoint, p, tr)
             rd == ReadAll(rq.r.Body)
             u  == UnmarshalAccessToken(rd.bytes)
         IN  IF rq.panic
             THEN [params |-> p, sent |-> rq.sent, resp |-> rq.r, result |-> Panic]
             ELSE IF rq.err # NilErr
             THEN [params |-> p, sent |-> rq.sent, resp |-> closeHTTPResponse(rq.r),
                   result |-> Return(ZeroAccessToken, rq.err)]
             ELSE [params |-> p, sent |-> rq.sent,
                   resp |-> closeHTTPResponse([rq.r EXCEPT !.Body = rd.body]),
                   result |-> Return(u.out, u.err)]

ActivityDecodesAnyStatus(c, id, tr) ==
    LET p == [Queries |-> EmptyMap, Values |-> EmptyMap, WithBearer |-> TRUE,
              WithFormURLEncoded |-> FALSE]
        rq == GET(c, "/activities/" \o ToString(id), p, tr)
        rd == ReadAll(rq.r.Body)
        u  == UnmarshalActivity(rd.bytes)
    IN  IF rq.panic
        THEN [params |-> p, sent |-> rq.sent, resp |-> rq.r, result |-> Panic]
        ELSE IF rq.err # NilErr
        THEN [params |-> p, sent |-> rq.sent, resp |-> closeHTTPResponse(rq.r),
              result |-> Return(ZeroActivity, rq.err)]
        ELSE IF rq.r.StatusCode # StatusUnauthorized
        THEN [params |-> p, sent |-> rq.sent,
              resp |-> closeHTTPResponse([rq.r EXCEPT !.Body = rd.body]),
              result |-> Return(u.out, u.err)]
        ELSE [params |-> p, sent |-> rq.sent, resp |-> closeHTTPResponse(rq.r),
              result |-> Return(ZeroActivity, NilErr)]
Activity(c, id, tr) ==
    LET p == [Queries |-> EmptyMap, Values |-> EmptyMap, WithBearer |-> TRUE,
              WithFormURLEncoded |-> FALSE]
        rq == GET(c, "/activities/" \o ToString(id), p, tr)
        rd == ReadAll(rq.r.Body)
        u  == UnmarshalActivity(rd.bytes)
    IN  IF rq.panic
        THEN [params |-> p, sent |-> rq.sent, resp |-> rq.r, result |-> Panic]
        ELSE IF rq.err # NilErr
        THEN [params |-> p, sent |-> rq.sent, resp |-> closeHTTPResponse(rq.r),
              result |-> Return(ZeroActivity, rq.err)]
        ELSE IF rq.r.StatusCode = StatusOK
        THEN [params |-> p, sent |-> rq.sent,
              resp |-> closeHTTPResponse([rq.r EXCEPT !.Body = rd.body]),
              result |-> Return(u.out, u.err)]
        ELSE [params |-> p, sent |-> rq.sent, resp |-> closeHTTPResponse(rq.r),
              result |-> Return(ZeroActivity, NilErr)]

\* ActivitiesRequest.Queries.
QueriesPageAlways(ar) ==
    LET m1 == IF ~IsZero(ar.After) THEN MapSet(EmptyMap, "after", I64(Unix(ar.After)))
              ELSE EmptyMap
        m2 == IF ~IsZero(ar.Before) THEN MapSet(m1, "before", I64(Unix(ar.Before)))
              ELSE m1
        m3 == MapSet(m2, "page", U64(ar.Page))
    IN  IF ar.PerPage > 0 THEN MapSet(m3, "per_page", U64(ar.PerPage)) ELSE m3
Queries(ar) ==
    LET m1 == IF ~IsZero(ar.After) THEN MapSet(EmptyMap, "after", I64(Unix(ar.After)))
              ELSE EmptyMap
        m2 == IF ~IsZero(ar.Before) THEN MapSet(m1, "before", I64(Unix(ar.Before)))
              ELSE m1
        m3 == IF ar.Page > 0 THEN MapSet(m2, "page", U64(ar.Page)) ELSE m2
    IN  IF ar.PerPage > 0 THEN MapSet(m3, "per_page", U64(ar.PerPage)) ELSE m3

Activities(c, ar, tr) ==
    LET p == [Queries |-> Queries(ar), Values |-> EmptyMap, WithBearer |-> TRUE,
              WithFormURLEncoded |-> FALSE]
        rq == GET(c, "/activities", p, tr)
        rd == ReadAll(rq.r.Body)
        u  == UnmarshalActivities(rd.bytes)
    IN  IF rq.panic
        THEN [params |-> p, sent |-> rq.sent, resp |-> rq.r, result |-> Panic]
        ELSE IF rq.err # NilErr
        THEN [params |-> p, sent |-> rq.sent, resp |-> closeHTTPResponse(rq.r),
              result |-> Return(NilActivities, rq.err)]
        ELSE IF rq.r.StatusCode = StatusOK
        THEN [params |-> p, sent |-> rq.sent,
              resp |-> closeHTTPResponse([rq.r EXCEPT !.Body = rd.body]),
              result |-> Return(u.out, u.err)]
        ELSE [params |-> p, sent |-> rq.sent, resp |-> closeHTTPResponse(rq.r),
              result |-> Return(NilActivities, NilErr)]

\* Request called on its own, with any RequestParams (it is also what POST
\* and GET forward to).
RequestParamsSet ==
    [Queries : {"code" :> Str("r/t") @@ "page" :> U64(2)},
     Values : {"name" :> Str("run")},
     WithBearer : BOOLEAN, WithFormURLEncoded : BOOLEAN]
ActivitiesRequests ==
    [Before : Dates, After : Dates, Page : Pages, PerPage : PerPages]
SampleRequests ==
    { [Before |-> ZeroDate, After |-> ZeroDate, Page |-> 0, PerPage |-> 0],
      [Before |-> ZeroDate, After |-> ZeroDate, Page |-> 2, PerPage |-> 0],
      [Before |-> [zero |-> FALSE, unix |-> 1600000000],
       After |-> [zero |-> FALSE, unix |-> 0], Page |-> 1, PerPage |-> 1] }

(***************************************************************************)
(* The state machine: New, then any sequence of calls.                     *)
(***************************************************************************)
New(cfg) == [cfg |-> cfg, accessToken |-> "", userID |-> 0]

Init ==
    /\ \E cfg \in Configs : s = New(cfg)
    /\ lastSet = ""
    /\ call = [op |-> "New"]
    /\ params = NoParams
    /\ sent = <<>>
    /\ resp = NilResponse
    /\ result = Done

Observe(o) ==
    /\ params' = o.params
    /\ sent' = o.sent
    /\ resp' = o.resp
    /\ result' = o.result

CallSetAccessToken ==
    \E tok \in Tokens :
        /\ s' = SetAccessToken(s, tok)
        /\ lastSet' = tok
        /\ call' = [op |-> "SetAccessToken", tok |-> tok]
        /\ params' = NoParams /\ sent' = <<>> /\ resp' = NilResponse
        /\ result' = Done

CallSetUserID ==
    \E id \in IDs :
        /\ s' = SetUserID(s, id)
        /\ call' = [op |-> "SetUserID", id |-> id]
        /\ params' = NoParams /\ sent' = <<>> /\ resp' = NilResponse
        /\ result' = Done
        /\ UNCHANGED lastSet

CallAuthorizationURL ==
    \E state \in States :
        /\ call' = [op |-> "AuthorizationURL", state |-> state]
        /\ params' = NoParams /\ sent' = <<>> /\ resp' = NilResponse
        /\ result' = [kind |-> "return", out |-> AuthorizationURL(s, state)]
        /\ UNCHANGED <<s, lastSet>>

CallAuthorizationAccessToken ==
    \E tok \in Codes, grant \in Grants, tr \in Transports :
        /\ call' = [op |-> "AuthorizationAccessToken", tok |-> tok, grant |-> grant,
                    tr |-> tr]
        /\ Observe(AuthorizationAccessToken(s, tok, grant, tr))
        /\ UNCHANGED <<s, lastSet>>

CallActivity ==
    \E id \in IDs, tr \in Transports :
        /\ call' = [op |-> "Activity", id |-> id, tr |-> tr]
        /\ Observe(Activity(s, id, tr))
        /\ UNCHANGED <<s, lastSet>>

CallActivities ==
    \E ar \in SampleRequests, tr \in Transports :
        /\ call' = [op |-> "Activities", ar |-> ar, tr |-> tr]
        /\ Observe(Activities(s, ar, tr))
        /\ UNCHANGED <<s, lastSet>>

CallRequest ==
    \E method \in {MethodGet, MethodPost}, p \in RequestParamsSet, tr \in Transports :
        LET rq == Request(s, method, TokenEndpoint, p, tr)
        IN  /\ call' = [op |-> "Request", method |-> method, tr |-> tr]
            /\ params' = p
            /\ sent' = rq.sent
            /\ resp' = rq.r
            /\ result' = IF rq.panic THEN Panic ELSE Return(rq.r, rq.err)
            /\ UNCHANGED <<s, lastSet>>

Next ==
    \/ CallSetAccessToken
    \/ CallSetUserID
    \/ CallAuthorizationURL
    \/ CallAuthorizationAccessToken
    \/ CallActivity
    \/ CallActivities
    \/ CallRequest

Spec == Init /\ [][Next]_vars

(***************************************************************************)
(* ActivitiesRequest.Queries on its own, over every request of the bounds. *)
(***************************************************************************)
CallQueries ==
    \E ar \in ActivitiesRequests :
        /\ call' = [op |-> "Queries", ar |-> ar]
        /\ params' = NoParams /\ sent' = <<>> /\ resp' = NilResponse
        /\ result' = [kind |-> "return", out |-> Queries(ar)]
        /\ UNCHANGED <<s, lastSet>>

SpecQueries == Init /\ [][CallQueries]_vars

(***************************************************************************)
(* Properties.                                                             *)
(***************************************************************************)
NetworkOps == {"Activity", "Activities", "AuthorizationAccessToken"}
\* The transport was invoked by the last call and returned a response.
GotResponse == Len(sent) = 1 /\ call.tr.r # NilResponse
FormURLEncoded == "application/x-www-form-urlencoded"

\* C1: a grant other than authorization_code and refresh_token makes
\* AuthorizationAccessToken return the unsupported-grant error naming that
\* grant, and no request is handed to the transport.
C1_UnsupportedGrant ==
    (call.op = "AuthorizationAccessToken"
        /\ call.grant \notin {"authorization_code", "refresh_token"})
    => /\ result.kind = "return"
       /\ result.err = "grant_type '" \o call.grant \o "' not supported"
       /\ sent = <<>>
C1_Witness ==
    /\ call.op = "AuthorizationAccessToken"
    /\ call.grant = "bogus_grant"
    /\ result.kind = "return"
    /\ result.err = "grant_type 'bogus_grant' not supported"
    /\ sent = <<>>

\* C2: when the transport returns a response with status 401, Activity,
\* Activities and AuthorizationAccessToken return AuthorizationError, and
\* Request returns the response together with that error.
C2_UnauthorizedIsAuthorizationError ==
    (call.op \in NetworkOps \cup {"Request"} /\ GotResponse
        /\ call.tr.r.StatusCode = 401)
    => /\ result.kind = "return"
       /\ result.err = "authorization error"
       /\ call.op = "Request" => result.out = call.tr.r
C2_Witness ==
    /\ call.op = "Activities"
    /\ GotResponse
    /\ call.tr.r.StatusCode = 401
    /\ result.kind = "return"
    /\ result.err = "authorization error"

\* C3: when the transport fails with an error and no response, the call
\* returns normally with that same error, the transport having been invoked
\* once.
C3_TransportErrorReturned ==
    (call.op \in NetworkOps \cup {"Request"} /\ Len(sent) >= 1
        /\ call.tr.r = NilResponse)
    => /\ result.kind = "return"
       /\ result.err = call.tr.err
       /\ Len(sent) = 1

\* C4: a request built with WithBearer=true (every Activity and Activities
\* request) carries Authorization: "Bearer <t>", t the argument of the most
\* recent SetAccessToken call ("" if there was none), also when t is empty;
\* a request built with WithBearer=false carries no Authorization header.
C4_BearerIsLastSetToken ==
    /\ \A i \in 1..Len(sent) :
          IF params.WithBearer
          THEN /\ "Authorization" \in DOMAIN sent[i].Header
               /\ sent[i].Header["Authorization"] = "Bearer " \o lastSet
          ELSE "Authorization" \notin DOMAIN sent[i].Header
    /\ (call.op \in {"Activity", "Activities"} /\ sent # <<>>) => params.WithBearer
C4_Witness ==
    /\ call.op = "Activity"
    /\ Len(sent) = 1
    /\ lastSet = "tokA"
    /\ sent[1].Header["Authorization"] = "Bearer tokA"

\* C5: the Content-Type of a request sent by Request is application/json
\* exactly when the method is POST and WithFormURLEncoded is false, and
\* application/x-www-form-urlencoded otherwise; Accept is always
\* application/json;charset=UTF-8.
C5_ContentTypeTable ==
    \A i \in 1..Len(sent) :
        /\ (sent[i].Method = "POST" /\ ~params.WithFormURLEncoded)
              => sent[i].Header["Content-Type"] = "application/json"
        /\ ~(sent[i].Method = "POST" /\ ~params.WithFormURLEncoded)
              => sent[i].Header["Content-Type"] = FormURLEncoded
        /\ sent[i].Header["Accept"] = "application/json;charset=UTF-8"
C5_Witness ==
    /\ call.op = "Request"
    /\ Len(sent) = 1
    /\ sent[1].Method = "POST"
    /\ params.WithFormURLEncoded
    /\ sent[1].Header["Content-Type"] = FormURLEncoded

\* What Activity and Activities return on each status of a response.
DecodedResult ==
    IF call.op = "Activity"
    THEN UnmarshalActivity(ReadAll(call.tr.r.Body).bytes)
    ELSE UnmarshalActivities(ReadAll(call.tr.r.Body).bytes)
ZeroResult == IF call.op = "Activity" THEN ZeroActivity ELSE NilActivities
StatusDispatch ==
    /\ result.kind = "return"
    /\ call.tr.r.StatusCode = 200
          => /\ result.out = DecodedResult.out
             /\ result.err = DecodedResult.err
             /\ resp.Body.drained
    /\ call.tr.r.StatusCode \notin {200, 401}
          => /\ result.out = ZeroResult
             /\ result.err = NilErr
             /\ ~resp.Body.drained

\* C6 as stated: for Activity and Activities, a response with status 200 is
\* decoded and the decoded value (or the decode error) returned; a response
\* with any other status except 401 gives the zero value with a nil error,
\* the body not decoded.
C6_StatusDispatchAnyResponse ==
    (call.op \in {"Activity", "Activities"} /\ GotResponse) => StatusDispatch

\* C6 amended: the same, for a response the transport returns without an
\* error.
C6_StatusDispatchOnSuccess ==
    (call.op \in {"Activity", "Activities"} /\ GotResponse /\ call.tr.err = NilErr)
    => StatusDispatch
C6_Witness ==
    /\ call.op = "Activity"
    /\ GotResponse
    /\ call.tr.err = NilErr
    /\ call.tr.r.StatusCode = 404
    /\ call.tr.r.Body.data = ObjActivity
    /\ result = Return(ZeroActivity, NilErr)

\* C7: AuthorizationAccessToken with a supported grant issues exactly one
\* POST to the token endpoint, whose query holds exactly client_id and
\* client_secret of the Config, grant_type, and the one field of the grant
\* carrying tok (code, or refresh_token), with no Authorization header.
GrantField == IF call.grant = "authorization_code" THEN "code" ELSE "refresh_token"
C7_TokenExchangeRequest ==
    (call.op = "AuthorizationAccessToken"
        /\ call.grant \in {"authorization_code", "refresh_token"})
    => /\ Len(sent) = 1
       /\ sent[1].Method = "POST"
       /\ sent[1].URL = "https://www.strava.com/api/v3/oauth/token"
       /\ DOMAIN sent[1].Query = {"client_id", "client_secret", "grant_type", GrantField}
       /\ sent[1].Query["client_id"] = s.cfg.ClientID
       /\ sent[1].Query["client_secret"] = s.cfg.ClientSecret
       /\ sent[1].Query["grant_type"] = call.grant
       /\ sent[1].Query[GrantField] = call.tok
       /\ "Authorization" \notin DOMAIN sent[1].Header
       /\ (s.cfg.ClientID = "1234" /\ call.grant = "refresh_token" /\ call.tok = "r/t")
             => sent[1].RawQuery = "client_id=1234&client_secret=s3cret"
                    \o "&grant_type=refresh_token&refresh_token=r%2Ft"
C7_Witness ==
    /\ call.op = "AuthorizationAccessToken"
    /\ call.grant = "refresh_token"
    /\ s.accessToken = "tokA"
    /\ Len(sent) = 1
    /\ sent[1].Query["refresh_token"] = "r/t"
    /\ "code" \notin DOMAIN sent[1].Query

\* C8: Queries() has exactly the keys of the non-zero fields among after,
\* before, page, per_page, each mapped to the field's value (a date to its
\* unix timestamp); the all-zero request gives the empty mapping and a
\* request with only Page=2 gives only page=2.
C8_QueriesNonZeroFields ==
    call.op = "Queries" =>
        LET m == result.out
            ar == call.ar
        IN  /\ DOMAIN m = {k \in {"after", "before", "page", "per_page"} :
                              \/ k = "after" /\ ar.After # ZeroDate
                              \/ k = "before" /\ ar.Before # ZeroDate
                              \/ k = "page" /\ ar.Page # 0
                              \/ k = "per_page" /\ ar.PerPage # 0}
            /\ "after" \in DOMAIN m => m["after"].n = ar.After.unix
            /\ "before" \in DOMAIN m => m["before"].n = ar.Before.unix
            /\ "page" \in DOMAIN m => m["page"].n = ar.Page
            /\ "per_page" \in DOMAIN m => m["per_page"].n = ar.PerPage
            /\ \A k \in DOMAIN m : m[k].t # "string"
            /\ (ar = [Before |-> ZeroDate, After |-> ZeroDate, Page |-> 0, PerPage |-> 0])
                  => m = EmptyMap
            /\ (ar = [Before |-> ZeroDate, After |-> ZeroDate, Page |-> 2, PerPage |-> 0])
                  => /\ DOMAIN m = {"page"}
                     /\ convertString(m["page"]) = "2"
C8_Witness ==
    /\ call.op = "Queries"
    /\ call.ar.After = [zero |-> FALSE, unix |-> 0]
    /\ call.ar.Before = ZeroDate
    /\ call.ar.Page = 2
    /\ DOMAIN result.out = {"after", "page"}

\* C9 as stated: for Activity, Activities and AuthorizationAccessToken, the
\* body of every response the transport returns is drained and closed when
\* the call returns, on every exit path.
C9_BodyDrainedAndClosed ==
    (call.op \in NetworkOps /\ GotResponse /\ result.kind = "return")
    => resp.Body.closed /\ resp.Body.drained

\* C9 amended: the body of every response the transport returns is closed
\* when the call returns, on every exit path; it is drained exactly on the
\* paths that decode it (no error from Request, and status 200 for Activity
\* and Activities, any status for AuthorizationAccessToken).
DecodePath ==
    /\ call.tr.err = NilErr
    /\ call.tr.r.StatusCode # 401
    /\ call.op = "AuthorizationAccessToken" \/ call.tr.r.StatusCode = 200
C9_BodyClosed ==
    (call.op \in NetworkOps /\ GotResponse /\ result.kind = "return")
    => resp.Body.closed /\ (resp.Body.drained <=> DecodePath)
C9_Witness ==
    /\ call.op = "Activities"
    /\ GotResponse
    /\ call.tr.r.StatusCode = 404
    /\ ~call.tr.r.Body.closed
    /\ result.kind = "return"
    /\ resp.Body.closed
    /\ ~resp.Body.drained

\* C10: the access token of the session changes only through
\* SetAccessToken (it is always the last token set, a token exchange that
\* succeeds included), and the Config of the client never changes.
C10_TokenChangesOnlyBySetter ==
    /\ [](s.accessToken = lastSet)
    /\ [][/\ call'.op # "SetAccessToken" => s'.accessToken = s.accessToken
          /\ s'.cfg = s.cfg]_vars
C10_Witness ==
    /\ call.op = "AuthorizationAccessToken"
    /\ result.kind = "return"
    /\ result.err = NilErr
    /\ result.out.AccessToken = "fresh"
    /\ s.accessToken = "tokA"
    /\ lastSet = "tokA"
====
